---- MODULE Spec2Model ----
(***************************************************************************)
(* network_tester.py: the seven-layer diagnostic run (run_diagnostics),    *)
(* its spinner thread, the module-level state it shares between runs and   *)
(* the analysis stage that closes a run.                                   *)
(*                                                                         *)
(* A log message is modelled by the layer it speaks of (0: none) and the   *)
(* format string it is built from; interpolated values (error texts,       *)
(* latency, the resolved address) are left out of the message.  The wall   *)
(* clock of log() is the number of runs completed so far.                  *)
(***************************************************************************)
EXTENDS Integers, Sequences, FiniteSets, TLC

VARIABLES
    log_entries,     \* module-level list of logged entries (line 8)
    spinner_active,  \* module-level flag read by the spinner (line 9)
    layer_results,   \* module-level dict: label -> bool (line 10)
    pc,              \* position of the main thread in run_diagnostics
    issues,          \* local list of failed layer names (line 102)
    env,             \* local: detected environment (line 103)
    spin_pc,         \* position of the spinner thread of the current run
    idx,             \* spinner's frame counter, kept modulo len(symbols)
    writes,          \* history: labels assigned in layer_results this run, in order
    report,          \* entries written to the report file of this run
    overview,        \* statuses printed by text_osi_results in this run
    nruns,           \* number of run_diagnostics calls that have returned
    probe_call,      \* a probe called on its own: the function and what the OS does
    probe_ret        \* the value that call returned

vars == <<log_entries, spinner_active, layer_results, pc, issues, env,
          spin_pc, idx, writes, report, overview, nruns, probe_call, probe_ret>>

\* ----------------------------------------------------------------- bounds
\* run_diagnostics is called again only while log_entries, which the module
\* never clears, holds at most this many entries
MaxLog == 26

\* longest text (stderr of ping, message of an exception) an OS call yields
MaxText == 2

\* names of the interfaces psutil.net_if_stats() may report
Ifaces == {"eth0", "wlan0"}

\* -------------------------------------------------------------- constants
\* len(symbols) of the spinner
NSymbols == 4

NLayers == 7

Layers == 1..NLayers

\* the keys of layer_results, in the order text_osi_results lists them
Labels ==
    <<"1 - Physical", "2 - Data Link", "3 - Network", "4 - Transport",
      "5 - Session", "6 - Presentation", "7 - Application">>

\* the names appended to issues
IssueNames ==
    <<"Layer 1 - Physical", "Layer 2 - Data Link", "Layer 3 - Network",
      "Layer 4 - Transport", "Layer 5 - Session", "Layer 6 - Presentation",
      "Layer 7 - Application">>

Envs == {"enterprise", "home", "unknown"}

\* ---------------------------------------------------------------- helpers
Msg(l, t) == [layer |-> l, text |-> t]

\* log(message): the entry is "<timestamp> - <message>", appended to the list
log(entries, message) == Append(entries, [ts |-> nruns, msg |-> message])

RECURSIVE logAll(_, _)
logAll(entries, messages) ==
    IF messages = <<>> THEN entries
    ELSE logAll(log(entries, Head(messages)), Tail(messages))

\* d[key] = value on a dict
DictSet(d, key, value) ==
    [k \in DOMAIN d \cup {key} |-> IF k = key THEN value ELSE d[k]]

\* d.get(key, default)
DictGet(d, key, default) == IF key \in DOMAIN d THEN d[key] ELSE default

Contains(seq, x) == \E i \in 1..Len(seq) : seq[i] = x

\* ------------------------------------------------------------- the probes
\* Python's None, and a value that is not None
None == [none |-> TRUE]

Some(v) == [none |-> FALSE, val |-> v]

\* the characters of a text: whitespace and any other character
Chars == {" ", "e"}

Texts == UNION {[1..n -> Chars] : n \in 0..MaxText}

\* str.strip(): leading and trailing whitespace removed
RECURSIVE Strip(_)
Strip(t) ==
    IF t = <<>> THEN t
    ELSE IF Head(t) = " " THEN Strip(Tail(t))
    ELSE IF t[Len(t)] = " " THEN Strip(SubSeq(t, 1, Len(t) - 1))
    ELSE t

\* what subprocess.run does for ping: exits with a status and a stderr text,
\* or raises (TimeoutExpired, OSError) with a message
PingRuns ==
    [kind : {"exit"}, returncode : {0, 1, 2}, text : Texts]
    \cup [kind : {"TimeoutExpired", "OSError"}, returncode : {0}, text : Texts]

\* ping_host: (success, error)
ping_host(run) ==
    IF run.kind = "exit"
    THEN IF run.returncode = 0 THEN <<TRUE, None>>
         ELSE <<FALSE, Some(Strip(run.text))>>
    ELSE <<FALSE, Some(run.text)>>

\* what socket.create_connection does: connects after some milliseconds, or
\* raises (socket.timeout, OSError) with a message
ConnRuns ==
    [kind : {"connect"}, ms : {0, 12}, text : {<<>>}]
    \cup [kind : {"timeout", "OSError"}, ms : {0}, text : Texts]

\* tcp_connect: (success, latency, error)
tcp_connect(run) ==
    IF run.kind = "connect" THEN <<TRUE, Some(run.ms), None>>
    ELSE <<FALSE, None, Some(run.text)>>

\* bool(value) of a tuple: a tuple is false only when it is empty
Truthy(value) == Len(value) # 0

\* what psutil.net_if_stats() returns: interface -> isup
IfStats == UNION {[S -> BOOLEAN] : S \in SUBSET Ifaces}

\* all() in the place of any()
AllUp(stats) == \A i \in DOMAIN stats : stats[i]

\* any(info.isup for info in stats.values())
AnyUp(stats) == \E i \in DOMAIN stats : stats[i]

\* the four messages of a failed layer with an explanation
FailMsgs(k) ==
    <<Msg(k, "FAIL"), Msg(k, "Explanation"), Msg(k, "Plain Language"),
      Msg(k, "Responsible")>>

\* ----------------------------------------------------------------- Init
Init ==
    /\ log_entries = <<>>
    /\ spinner_active = TRUE
    /\ layer_results = <<>>
    /\ pc = "idle"
    /\ issues = <<>>
    /\ env = "none"
    /\ spin_pc = "none"
    /\ idx = 0
    /\ writes = <<>>
    /\ report = <<>>
    /\ overview = <<>>
    /\ nruns = 0
    /\ probe_call = None
    /\ probe_ret = None

\* ------------------------------------------------------- the spinner thread
\* while spinner_active:
SpinTest ==
    /\ spin_pc = "test"
    /\ spin_pc' = IF spinner_active THEN "body" ELSE "exited"
    /\ UNCHANGED <<probe_call, probe_ret, log_entries, spinner_active, layer_results,
                   pc, issues, env,
                   idx, writes, report, overview, nruns>>

\* SpinBody reporting its frame through log()
SpinBodyLogs ==
    /\ spin_pc = "body"
    /\ idx' = (idx + 1) % NSymbols
    /\ spin_pc' = "test"
    /\ log_entries' = log(log_entries, Msg(0, "Running diagnostics..."))
    /\ UNCHANGED <<probe_call, probe_ret, spinner_active, layer_results, pc, issues,
                   env, writes, report, overview, nruns>>

\* write the frame, flush, sleep, idx += 1
SpinBody ==
    /\ spin_pc = "body"
    /\ idx' = (idx + 1) % NSymbols
    /\ spin_pc' = "test"
    /\ UNCHANGED <<probe_call, probe_ret, log_entries, spinner_active, layer_results,
                   pc, issues, env,
                   writes, report, overview, nruns>>

\* --------------------------------------------------------- run_diagnostics
\* Record without issues.append on failure
RecordForgetIssue(k, passed, messages) ==
    /\ log_entries' = logAll(log_entries, messages)
    /\ issues' = issues
    /\ layer_results' = DictSet(layer_results, Labels[k], passed)
    /\ writes' = Append(writes, Labels[k])

\* Record with the dict keyed by the name used in issues ("Layer N - Name")
RecordIssueKey(k, passed, messages) ==
    /\ log_entries' = logAll(log_entries, messages)
    /\ issues' = IF passed THEN issues ELSE Append(issues, IssueNames[k])
    /\ layer_results' = DictSet(layer_results, IssueNames[k], passed)
    /\ writes' = Append(writes, IssueNames[k])

\* the result of layer k: on failure the name joins issues; the dict entry is set
Record(k, passed, messages) ==
    /\ log_entries' = logAll(log_entries, messages)
    /\ issues' = IF passed THEN issues ELSE Append(issues, IssueNames[k])
    /\ layer_results' = DictSet(layer_results, Labels[k], passed)
    /\ writes' = Append(writes, Labels[k])

\* spin_thread = threading.Thread(target=spinner); spin_thread.start()
Call ==
    /\ pc = "idle"
    /\ Len(log_entries) <= MaxLog
    /\ spin_pc' = "test"
    /\ idx' = 0
    /\ pc' = "init"
    /\ writes' = <<>>
    /\ report' = <<>>
    /\ overview' = <<>>
    /\ UNCHANGED <<probe_call, probe_ret, log_entries, spinner_active, layer_results,
                   issues, env, nruns>>

\* Setup with issues kept from the previous call, as the module-level
\* collections are
SetupKeepIssues ==
    /\ pc = "init"
    /\ issues' = issues
    /\ \E e \in Envs :
          /\ env' = e
          /\ log_entries' = logAll(log_entries,
                 <<Msg(0, "NETWORK DEBUG TOOL"), Msg(0, "Detected Environment: " \o e)>>)
    /\ pc' = "L1"
    /\ UNCHANGED <<probe_call, probe_ret, spinner_active, layer_results, spin_pc,
                   idx, writes, report,
                   overview, nruns>>

\* issues = []; env = detect_environment(); the two banner lines
Setup ==
    /\ pc = "init"
    /\ issues' = <<>>
    /\ \E e \in Envs :
          /\ env' = e
          /\ log_entries' = logAll(log_entries,
                 <<Msg(0, "NETWORK DEBUG TOOL"), Msg(0, "Detected Environment: " \o e)>>)
    /\ pc' = "L1"
    /\ UNCHANGED <<probe_call, probe_ret, spinner_active, layer_results, spin_pc,
                   idx, writes, report,
                   overview, nruns>>

\* the layer 1 block when psutil raises, or returns stats
Layer1With(raised, stats) ==
    /\ pc = "L1"
    /\ IF raised
       THEN Record(1, FALSE,
                <<Msg(1, "header"), Msg(1, "FAIL - Could not verify"),
                  Msg(1, "Responsible")>>)
       ELSE IF AnyUp(stats)
       THEN Record(1, TRUE, <<Msg(1, "header"), Msg(1, "OK")>>)
       ELSE Record(1, FALSE, <<Msg(1, "header")>> \o FailMsgs(1))
    /\ pc' = "L2"
    /\ UNCHANGED <<probe_call, probe_ret, spinner_active, env, spin_pc, idx, report,
                   overview, nruns>>

Layer1 == \E raised \in BOOLEAN, stats \in IfStats : Layer1With(raised, stats)

\* PingLayer leaving the probe sequence at the first failed ping
PingLayerShortCircuit(k, next) ==
    /\ \E run \in PingRuns :
          LET r == ping_host(run) IN
          IF r[1]
          THEN /\ Record(k, TRUE, <<Msg(k, "header"), Msg(k, "OK")>>)
               /\ pc' = next
          ELSE /\ Record(k, FALSE, <<Msg(k, "header")>> \o FailMsgs(k))
               /\ pc' = "analysis"
    /\ UNCHANGED <<probe_call, probe_ret, spinner_active, env, spin_pc, idx, report,
                   overview, nruns>>

\* layers 2 and 3: ping_host
PingLayer(k, next) ==
    /\ \E run \in PingRuns :
          LET r == ping_host(run) IN
          IF r[1]
          THEN Record(k, TRUE, <<Msg(k, "header"), Msg(k, "OK")>>)
          ELSE Record(k, FALSE, <<Msg(k, "header")>> \o FailMsgs(k))
    /\ pc' = next
    /\ UNCHANGED <<probe_call, probe_ret, spinner_active, env, spin_pc, idx, report,
                   overview, nruns>>

Layer2 == pc = "L2" /\ PingLayer(2, "L3")

Layer3 == pc = "L3" /\ PingLayer(3, "L4")

Layer4 ==
    /\ pc = "L4"
    /\ \E run \in ConnRuns :
          LET r == tcp_connect(run) IN
          IF r[1]
          THEN Record(4, TRUE, <<Msg(4, "header"), Msg(4, "OK")>>)
          ELSE Record(4, FALSE, <<Msg(4, "header")>> \o FailMsgs(4))
    /\ pc' = "L5"
    /\ UNCHANGED <<probe_call, probe_ret, spinner_active, env, spin_pc, idx, report,
                   overview, nruns>>

\* Layer5 in the always-true variant
Layer5AlwaysOK ==
    /\ pc = "L5"
    /\ Record(5, TRUE, <<Msg(5, "header"), Msg(5, "OK")>>)
    /\ pc' = "L6"
    /\ UNCHANGED <<probe_call, probe_ret, spinner_active, env, spin_pc, idx, report,
                   overview, nruns>>

\* Layer5 with a session probe of its own
Layer5Independent ==
    /\ pc = "L5"
    /\ \E ok \in BOOLEAN :
          IF ok
          THEN Record(5, TRUE, <<Msg(5, "header"), Msg(5, "OK")>>)
          ELSE Record(5, FALSE, <<Msg(5, "header"), Msg(5, "FAIL"), Msg(5, "Responsible")>>)
    /\ pc' = "L6"
    /\ UNCHANGED <<probe_call, probe_ret, spinner_active, env, spin_pc, idx, report,
                   overview, nruns>>

\* if "Layer 4 - Transport" not in issues
Layer5 ==
    /\ pc = "L5"
    /\ IF ~Contains(issues, IssueNames[4])
       THEN Record(5, TRUE, <<Msg(5, "header"), Msg(5, "OK")>>)
       ELSE Record(5, FALSE, <<Msg(5, "header"), Msg(5, "FAIL"), Msg(5, "Responsible")>>)
    /\ pc' = "L6"
    /\ UNCHANGED <<probe_call, probe_ret, spinner_active, env, spin_pc, idx, report,
                   overview, nruns>>

\* layers 6 and 7: a call that returns or raises
TryLayer(k, next) ==
    /\ \E raised \in BOOLEAN :
          IF ~raised
          THEN Record(k, TRUE, <<Msg(k, "header"), Msg(k, "OK")>>)
          ELSE Record(k, FALSE, <<Msg(k, "header")>> \o FailMsgs(k))
    /\ pc' = next
    /\ UNCHANGED <<probe_call, probe_ret, spinner_active, env, spin_pc, idx, report,
                   overview, nruns>>

Layer6 == pc = "L6" /\ TryLayer(6, "L7")

Layer7 == pc = "L7" /\ TryLayer(7, "analysis")

\* AdviceFor with the Session branch testing a name issues never holds
AdviceForSessionTypo(layer) ==
    IF layer = "Layer 1 - Physical"
    THEN <<Msg(0, "Check your physical network adapter")>>
    ELSE IF layer = "Layer 2 - Data Link"
    THEN <<Msg(0, "Check your local network connection")>>
    ELSE IF layer = "Layer 3 - Network"
    THEN <<Msg(0, "Your network may be blocked from reaching public IPs")>>
    ELSE IF layer = "Layer 4 - Transport"
    THEN <<Msg(0, "TCP connections to the internet are failing")>>
    ELSE IF layer = "5 - Session"
    THEN <<Msg(0, "Session layer issue")>>
    ELSE IF layer = "Layer 6 - Presentation"
    THEN <<Msg(0, "TLS/SSL errors may indicate outdated libraries")>>
    ELSE IF layer = "Layer 7 - Application"
    THEN <<Msg(0, "DNS resolution failed")>>
    ELSE <<>>

\* the elif ladder of the analysis loop: the advice logged for one entry of issues
AdviceFor(layer) ==
    IF layer = "Layer 1 - Physical"
    THEN <<Msg(0, "Check your physical network adapter")>>
    ELSE IF layer = "Layer 2 - Data Link"
    THEN <<Msg(0, "Check your local network connection")>>
    ELSE IF layer = "Layer 3 - Network"
    THEN <<Msg(0, "Your network may be blocked from reaching public IPs")>>
    ELSE IF layer = "Layer 4 - Transport"
    THEN <<Msg(0, "TCP connections to the internet are failing")>>
    ELSE IF layer = "Layer 5 - Session"
    THEN <<Msg(0, "Session layer issue")>>
    ELSE IF layer = "Layer 6 - Presentation"
    THEN <<Msg(0, "TLS/SSL errors may indicate outdated libraries")>>
    ELSE IF layer = "Layer 7 - Application"
    THEN <<Msg(0, "DNS resolution failed")>>
    ELSE <<>>

\* for layer in issues: ...
RECURSIVE AdviceLoop(_)
AdviceLoop(iss) ==
    IF iss = <<>> THEN <<>> ELSE AdviceFor(Head(iss)) \o AdviceLoop(Tail(iss))

\* Inference without the emptiness test
InferenceNoPassedLine(iss) == AdviceLoop(iss)

\* if not issues: the all-passed line; else the advice loop
Inference(iss) ==
    IF iss = <<>> THEN <<Msg(0, "All network layers passed")>> ELSE AdviceLoop(iss)

\* the line the environment selects
EnvNote(e) ==
    IF e = "enterprise" THEN Msg(0, "You appear to be on a corporate network")
    ELSE IF e = "home" THEN Msg(0, "You appear to be on a home network")
    ELSE Msg(0, "Environment unknown")

\* the analysis stage: header, environment note, inference
Analysis ==
    /\ pc = "analysis"
    /\ log_entries' = logAll(log_entries,
           <<Msg(0, "ANALYSIS & SUGGESTIONS"), EnvNote(env)>> \o Inference(issues))
    /\ pc' = "write"
    /\ UNCHANGED <<probe_call, probe_ret, spinner_active, layer_results, issues, env,
                   spin_pc, idx, writes,
                   report, overview, nruns>>

\* with open(report_filename, "w") as f: f.write("\n".join(log_entries))
WriteReport ==
    /\ pc = "write"
    /\ report' = log_entries
    /\ pc' = "overview"
    /\ UNCHANGED <<probe_call, probe_ret, log_entries, spinner_active, layer_results,
                   issues, env, spin_pc,
                   idx, writes, overview, nruns>>

\* open() raises (the directory is not writable): run_diagnostics is left by the
\* exception, with the spinner thread still running
WriteReportFails ==
    /\ pc = "write"
    /\ pc' = "raised"
    /\ UNCHANGED <<probe_call, probe_ret, log_entries, spinner_active, layer_results,
                   issues, env, spin_pc,
                   idx, writes, report, overview, nruns>>

\* text_osi_results(): one status per listed layer, layer_results.get(layer, False)
text_osi_results ==
    /\ pc = "overview"
    /\ log_entries' = log(log_entries, Msg(0, "OSI LAYER STATUS OVERVIEW"))
    /\ overview' = [k \in Layers |-> DictGet(layer_results, Labels[k], FALSE)]
    /\ pc' = "stop"
    /\ UNCHANGED <<probe_call, probe_ret, spinner_active, layer_results, issues, env,
                   spin_pc, idx, writes,
                   report, nruns>>

\* spinner_active = False
StopSpinner ==
    /\ pc = "stop"
    /\ spinner_active' = FALSE
    /\ pc' = "join"
    /\ UNCHANGED <<probe_call, probe_ret, log_entries, layer_results, issues, env,
                   spin_pc, idx, writes,
                   report, overview, nruns>>

\* spin_thread.join(): returns once the thread has exited
Join ==
    /\ pc = "join"
    /\ spin_pc = "exited"
    /\ pc' = "print"
    /\ UNCHANGED <<probe_call, probe_ret, log_entries, spinner_active, layer_results,
                   issues, env, spin_pc,
                   idx, writes, report, overview, nruns>>

\* the two completion lines, then run_diagnostics returns
Complete ==
    /\ pc = "print"
    /\ pc' = "idle"
    /\ nruns' = nruns + 1
    /\ UNCHANGED <<probe_call, probe_ret, log_entries, spinner_active, layer_results,
                   issues, env, spin_pc,
                   idx, writes, report, overview>>

Next ==
    \/ SpinTest
    \/ SpinBody
    \/ Call
    \/ Setup
    \/ Layer1
    \/ Layer2
    \/ Layer3
    \/ Layer4
    \/ Layer5
    \/ Layer6
    \/ Layer7
    \/ Analysis
    \/ WriteReport
    \/ WriteReportFails
    \/ text_osi_results
    \/ StopSpinner
    \/ Join
    \/ Complete

Spec == Init /\ [][Next]_vars

\* ------------------------------------------------ the analysis stage alone
\* the failed layers of F as issues holds them: names in ascending layer order
RECURSIVE IssuesFrom(_, _)
IssuesFrom(k, F) ==
    IF k > NLayers THEN <<>>
    ELSE (IF k \in F THEN <<IssueNames[k]>> ELSE <<>>) \o IssuesFrom(k + 1, F)

\* layer_results after a probe sequence in which exactly the layers of F failed
ResultsFrom(F) ==
    [l \in {Labels[k] : k \in Layers} |->
        \A k \in Layers : Labels[k] = l => k \notin F]

\* the state at line 204 for every pass/fail pattern and environment
InitEngine ==
    /\ \E F \in SUBSET Layers :
          /\ issues = IssuesFrom(1, F)
          /\ layer_results = ResultsFrom(F)
    /\ env \in Envs
    /\ log_entries = <<>>
    /\ spinner_active = TRUE
    /\ pc = "analysis"
    /\ spin_pc = "none"
    /\ idx = 0
    /\ writes = Labels
    /\ report = <<>>
    /\ overview = <<>>
    /\ nruns = 0
    /\ probe_call = None
    /\ probe_ret = None

NextEngine == Analysis

SpecEngine == InitEngine /\ [][NextEngine]_vars

\* ------------------------------------------------------ one probe alone
\* the addresses ping_host is called with (lines 129, 142)
PingHosts == {"192.168.50.1", "8.8.8.8"}

\* one probe, called with everything the OS may do under it: ping_host and
\* tcp_connect called directly, the layer 1 block entered at line 107
InitProbe ==
    /\ nruns = 0
    /\ spinner_active = TRUE
    /\ layer_results = <<>>
    /\ issues = <<>>
    /\ spin_pc = "none"
    /\ idx = 0
    /\ writes = <<>>
    /\ report = <<>>
    /\ overview = <<>>
    /\ probe_ret = None
    /\ \/ /\ probe_call \in [fn : {"ping_host"}, host : PingHosts, run : PingRuns]
          /\ pc = "call"
          /\ env = "none"
          /\ log_entries = <<>>
       \/ /\ probe_call \in [fn : {"tcp_connect"}, host : {"example.com"}, run : ConnRuns]
          /\ pc = "call"
          /\ env = "none"
          /\ log_entries = <<>>
       \/ /\ probe_call \in [fn : {"physical"}, raised : BOOLEAN, stats : IfStats]
          /\ pc = "L1"
          /\ env \in Envs
          /\ log_entries = logAll(<<>>,
                 <<Msg(0, "NETWORK DEBUG TOOL"), Msg(0, "Detected Environment: " \o env)>>)

CallPing ==
    /\ pc = "call"
    /\ probe_call.fn = "ping_host"
    /\ probe_ret' = ping_host(probe_call.run)
    /\ pc' = "returned"
    /\ UNCHANGED <<probe_call, log_entries, spinner_active, layer_results, issues, env,
                   spin_pc, idx, writes, report, overview, nruns>>

CallTcp ==
    /\ pc = "call"
    /\ probe_call.fn = "tcp_connect"
    /\ probe_ret' = tcp_connect(probe_call.run)
    /\ pc' = "returned"
    /\ UNCHANGED <<probe_call, log_entries, spinner_active, layer_results, issues, env,
                   spin_pc, idx, writes, report, overview, nruns>>

ProbePhysical ==
    /\ pc = "L1"
    /\ probe_call.fn = "physical"
    /\ Layer1With(probe_call.raised, probe_call.stats)

NextProbe ==
    \/ CallPing
    \/ CallTcp
    \/ ProbePhysical

SpecProbe == InitProbe /\ [][NextProbe]_vars

\* ------------------------------------------------------ reading the state
ProbePcs == {"L1", "L2", "L3", "L4", "L5", "L6", "L7"}

\* the probe sequence of the current run has completed
AfterProbes == {"analysis", "write", "overview", "stop", "join", "print", "raised"}

\* the analysis stage of the current run has completed
AfterAnalysis == AfterProbes \ {"analysis"}

\* the overview of the current run has been printed
AfterOverview == {"stop", "join", "print"}

LabelSet == {Labels[k] : k \in Layers}

\* the layers layer_results holds as failed
FailureSet == {k \in Layers : Labels[k] \in DOMAIN layer_results /\ ~layer_results[Labels[k]]}

PassSet == {k \in Layers : Labels[k] \in DOMAIN layer_results /\ layer_results[Labels[k]]}

\* the number of the layer the main thread is about to probe (8: none left)
NextLayer ==
    IF pc = "L1" THEN 1 ELSE IF pc = "L2" THEN 2 ELSE IF pc = "L3" THEN 3
    ELSE IF pc = "L4" THEN 4 ELSE IF pc = "L5" THEN 5 ELSE IF pc = "L6" THEN 6
    ELSE IF pc = "L7" THEN 7 ELSE 8

\* ------------------------------------------------------------------ claims
\* C1: the layers are evaluated in ascending order 1..7 without short-circuit:
\* the results recorded so far in a run are those of layers 1..k-1, in that
\* order, when layer k is next, whatever failed before; after the last probe
\* all seven have been recorded.
C1_AscendingNoShortCircuit ==
    /\ \A i \in 1..Len(writes) : i <= NLayers /\ writes[i] = Labels[i]
    /\ pc \in ProbePcs => Len(writes) = NextLayer - 1
    /\ pc \in AfterProbes => Len(writes) = NLayers

\* a run whose first layer failed has recorded all seven layers
C1_Witness ==
    /\ pc = "analysis"
    /\ Len(writes) = NLayers
    /\ ~layer_results[Labels[1]]
    /\ ~layer_results[Labels[3]]

\* C2: when the probe sequence of a run has completed, layer_results holds
\* one boolean for each of the seven canonical labels and no other key, and
\* each label was written exactly once during the run.
C2_ExactlyOnePerLayer ==
    pc \in AfterProbes =>
        /\ DOMAIN layer_results = LabelSet
        /\ \A l \in LabelSet : layer_results[l] \in BOOLEAN
        /\ \A l \in LabelSet : Cardinality({i \in 1..Len(writes) : writes[i] = l}) = 1
        /\ Len(writes) = Cardinality(LabelSet)

\* a second run has completed its probes, with failures
C2_Witness ==
    /\ pc = "analysis"
    /\ nruns = 1
    /\ FailureSet = {2, 4, 5, 7}

\* ------------------------------------------------------ reading the log
\* the messages logged during the call with timestamp n, in order
RunMsgs(n) ==
    LET es == SelectSeq(log_entries, LAMBDA x : x.ts = n)
    IN  [i \in 1..Len(es) |-> es[i].msg]

AnalysisHeader == Msg(0, "ANALYSIS & SUGGESTIONS")

OverviewHeader == Msg(0, "OSI LAYER STATUS OVERVIEW")

AllPassedLine == Msg(0, "All network layers passed")

\* the analysis stage of call n has logged its lines
HasAnalysis(n) == Contains(RunMsgs(n), AnalysisHeader)

\* what the analysis stage of call n logged after its header and the
\* environment note
InferenceOf(n) ==
    LET ms == RunMsgs(n)
        h == CHOOSE i \in 1..Len(ms) : ms[i] = AnalysisHeader
    IN  SelectSeq(SubSeq(ms, h + 2, Len(ms)), LAMBDA m : m # OverviewHeader)

\* the environment note of call n
EnvNoteOf(n) ==
    LET ms == RunMsgs(n)
        h == CHOOSE i \in 1..Len(ms) : ms[i] = AnalysisHeader
    IN  ms[h + 1]

\* the layers call n logged as failed / as passed
FailedOf(n) ==
    LET ms == RunMsgs(n)
    IN  {k \in Layers : \E i \in 1..Len(ms) :
            ms[i].layer = k /\ ms[i].text \in {"FAIL", "FAIL - Could not verify"}}

PassedOf(n) ==
    LET ms == RunMsgs(n)
    IN  {k \in Layers : \E i \in 1..Len(ms) : ms[i].layer = k /\ ms[i].text = "OK"}

\* the advice text the analysis loop holds for each layer (lines 218-230)
DedicatedAdvice ==
    <<"Check your physical network adapter",
      "Check your local network connection",
      "Your network may be blocked from reaching public IPs",
      "TCP connections to the internet are failing",
      "Session layer issue",
      "TLS/SSL errors may indicate outdated libraries",
      "DNS resolution failed">>

CountText(ms, t) == Cardinality({i \in 1..Len(ms) : ms[i].text = t})

\* C3: the spinner thread runs for the duration of the probe sequence, has
\* exited before the report is presented and before the completion message,
\* and takes no step after run_diagnostics has returned.
C3_SpinnerExitedBeforeReport ==
    /\ pc \in ProbePcs => spin_pc \in {"test", "body"}
    /\ pc \in AfterOverview => spin_pc = "exited"
    /\ pc = "idle" => spin_pc \in {"none", "exited"}

\* C4: in every call, spinner_active is true from the start of the spinner
\* thread until the layer 7 probe has completed.
C4_FlagTrueUntilLastProbe ==
    pc \in {"init"} \cup ProbePcs => spinner_active

\* C5: for every non-empty set of failed layers the analysis stage emits one
\* "Root Cause Inference" message and one "Recovery Suggestion" message.
C5_OneInferencePerRun ==
    (pc \in AfterAnalysis /\ FailureSet # {}) =>
        /\ CountText(InferenceOf(nruns), "Root Cause Inference") = 1
        /\ CountText(InferenceOf(nruns), "Recovery Suggestion") = 1

C7_SingleLayerDedicated ==
    \A L \in Layers :
        (pc \in AfterAnalysis /\ FailureSet = {L}) =>
            LET out == InferenceOf(nruns) IN
            /\ Len(out) = 1
            /\ out[1].text = DedicatedAdvice[L]
            /\ out[1] # AllPassedLine
            /\ \A M \in Layers \ {L} : out[1].text # DedicatedAdvice[M]

\* the analysis stage has run on the failure set {Session}
C7_Witness ==
    /\ pc = "write"
    /\ FailureSet = {5}
    /\ Len(InferenceOf(nruns)) = 1

\* C8: with failed = {Physical, Data Link, Network} the analysis stage
\* yields a single outcome, and none of the single-layer outcomes of layers
\* 1-3.
C8_Rule8Wins ==
    (pc \in AfterAnalysis /\ FailureSet = {1, 2, 3}) =>
        LET out == InferenceOf(nruns) IN
        /\ Len(out) = 1
        /\ \A i \in 1..Len(out), L \in {1, 2, 3} : out[i].text # DedicatedAdvice[L]

\* C9: with Network, Transport, Session and Presentation failed and Physical
\* and Data Link passed, the run yields a single explanation, and no
\* single-layer outcome.
C9_Rule9Wins ==
    (pc \in AfterAnalysis /\ {3, 4, 5, 6} \subseteq FailureSet /\ {1, 2} \subseteq PassSet) =>
        LET out == InferenceOf(nruns) IN
        /\ Len(out) = 1
        /\ \A i \in 1..Len(out), L \in Layers : out[i].text # DedicatedAdvice[L]

C11_ProbesReturnTestableOutcome ==
    pc = "returned" =>
        /\ probe_call.fn = "ping_host" =>
              probe_ret[1] = (probe_call.run.kind = "exit" /\ probe_call.run.returncode = 0)
        /\ probe_call.fn = "tcp_connect" =>
              /\ probe_ret[1] = (probe_call.run.kind = "connect")
              /\ Truthy(probe_ret) = (probe_call.run.kind = "connect")

\* C12: whenever a probe returns a failure outcome, the error it returns is
\* present and non-empty.
C12_FailureHasError ==
    (pc = "returned" /\ ~probe_ret[1]) =>
        LET error == probe_ret[Len(probe_ret)] IN
        /\ ~error.none
        /\ error.val # <<>>

\* C13: at the start of each call the layer-result collection and the
\* log-entry list are empty and the spinner flag is true.
C13_FreshStatePerRun ==
    pc = "init" =>
        /\ log_entries = <<>>
        /\ DOMAIN layer_results = {}
        /\ spinner_active

\* C14: once layer 5 has been recorded in a run, it is recorded as passed
\* exactly when layer 4 was recorded as passed in that run.
C14_SessionFollowsTransport ==
    (pc \in ProbePcs \cup AfterProbes /\ NextLayer > 5) =>
        layer_results[Labels[5]] = layer_results[Labels[4]]

\* a completed probe sequence in which Transport alone among the probed
\* layers failed, and Session with it
C14_Witness ==
    /\ pc = "analysis"
    /\ ~layer_results[Labels[4]]
    /\ ~layer_results[Labels[5]]
    /\ FailureSet = {4, 5}

\* C15: a step of the spinner thread leaves spinner_active, layer_results,
\* log_entries and issues as they are; every step that changes one of them
\* is a step of the main thread.
C15_SpinnerWritesNothingShared ==
    [][(\/ spinner_active' # spinner_active
        \/ layer_results' # layer_results
        \/ log_entries' # log_entries
        \/ issues' # issues)
       => (pc' # pc /\ spin_pc' = spin_pc /\ idx' = idx)]_vars

\* the spinner has gone round its loop while the main thread is probing
C15_Witness ==
    /\ pc = "L4"
    /\ spin_pc = "test"
    /\ idx = 3
    /\ spinner_active

\* C16: when a step between the start of the spinner thread and its join
\* fails, the spinner is still signalled to stop.
C16_StopSignalledOnFailure ==
    pc = "raised" => ~spinner_active

\* C17: layer 1 is recorded as passed exactly when psutil returns and at
\* least one interface is up; with no interface, or none up, it is recorded
\* as failed by the normal failure branch (its four messages, its name in
\* issues), not by the exception branch, and control is at layer 2.
C17_ZeroInterfacesOrdinaryFailure ==
    (pc = "L2" /\ probe_call.fn = "physical") =>
        LET raised == probe_call.raised
            stats == probe_call.stats
            up == \E i \in DOMAIN stats : stats[i] = TRUE
            ms == RunMsgs(0)
        IN  /\ DOMAIN layer_results = {Labels[1]}
            /\ layer_results[Labels[1]] = (~raised /\ up)
            /\ (~raised /\ ~up) =>
                  /\ issues = <<IssueNames[1]>>
                  /\ SubSeq(ms, 3, Len(ms)) = <<Msg(1, "header")>> \o FailMsgs(1)
                  /\ ~Contains(ms, Msg(1, "FAIL - Could not verify"))
            /\ raised => Contains(ms, Msg(1, "FAIL - Could not verify"))

\* psutil has reported no interface at all, and layer 1 is recorded as failed
C17_Witness ==
    /\ pc = "L2"
    /\ probe_call.fn = "physical"
    /\ ~probe_call.raised
    /\ DOMAIN probe_call.stats = {}
    /\ ~layer_results[Labels[1]]

\* the layers evaluated so far in the current run
Evaluated == 1..(NextLayer - 1)

\* C18: after layer k has been evaluated, issues holds exactly the names of
\* the layers among 1..k that layer_results holds as failed, once each and in
\* ascending order; the analysis then logs one advice line per failed layer,
\* in ascending order, and none for a passed layer.
C18_IssuesAgreeWithResults ==
    LET failed == {j \in Evaluated : ~layer_results[Labels[j]]} IN
    /\ pc \in ProbePcs \cup AfterProbes =>
          /\ \A j \in Evaluated :
                Contains(issues, IssueNames[j]) <=> ~layer_results[Labels[j]]
          /\ issues = IssuesFrom(1, failed)
    /\ (pc \in AfterAnalysis /\ failed # {}) =>
          LET out == InferenceOf(nruns) IN
          /\ Len(out) = Cardinality(failed)
          /\ \A i \in 1..Len(out) :
                /\ \E j \in failed : issues[i] = IssueNames[j] /\ out[i].text = DedicatedAdvice[j]
                /\ \A j \in Layers \ failed : out[i].text # DedicatedAdvice[j]

\* a second call has logged its advice for three failed layers
C18_Witness ==
    /\ pc = "write"
    /\ nruns = 1
    /\ FailureSet = {1, 3, 7}
    /\ Len(InferenceOf(nruns)) = 3

\* C19: no completed probe sequence has Transport failed without Session or
\* Session without Transport; the failure sets {Transport}, {Session},
\* {Transport, Application} and {Session, Presentation} do not occur.
C19_NoTransportWithoutSession ==
    pc \in AfterProbes =>
        /\ (4 \in FailureSet) = (5 \in FailureSet)
        /\ FailureSet \notin {{4}, {5}, {4, 7}, {5, 6}}
        /\ FailureSet \cup PassSet = Layers

\* a pattern next to the excluded ones: Transport, Session and Application
C19_Witness ==
    /\ pc = "analysis"
    /\ FailureSet = {4, 5, 7}
    /\ PassSet = {1, 2, 3, 6}

====
